---------------------------- MODULE Spec2Model ----------------------------
(***************************************************************************)
(* bprint (src/bprint.go): decode a byte stream into fixed-width integer   *)
(* fields per a layout specifier and print each record through a printf    *)
(* style template.                                                          *)
(*                                                                          *)
(* Strings are sequences of one-character strings.  The three parts of the  *)
(* program are modelled as operators computed the way the code computes     *)
(* them (parseBinaryFmtSpec, processPrintFmt, countPrintFmtSpec, readData)  *)
(* and main() is the state machine that runs them in order.                 *)
(***************************************************************************)
EXTENDS Integers, Sequences, FiniteSets, TLC

VARIABLES
    binaryFmt,        \* opt.binaryFmt   (flag -e)
    argPrintFmt,      \* the template given on the command line (flag -p)
    printFmt,         \* opt.printFmt, rewritten by main
    printOffset,      \* opt.printOffset (flag -o)
    printRecordCnt,   \* opt.printRecordCnt (flag -c)
    stream,           \* the bytes the reader will deliver
    endKind,          \* what the reader returns after the last byte
    pc,               \* position of main()
    formatDesc,       \* main's formatDesc
    recSize,          \* main's local recordSize
    printSpecCnt,     \* main's printSpecCnt
    pos,              \* bytes consumed from the reader
    n,                \* main's n
    err,              \* main's err
    data,             \* main's data slice
    scratch,          \* the package-level decode variables i8 .. u64
    recordCnt,        \* package-level recordCnt
    offSet,           \* package-level offSet
    out,              \* lines written to standard output
    panicMsg,         \* value recovered by main's deferred function
    panicIn           \* the function that panicked

vars == <<binaryFmt, argPrintFmt, printFmt, printOffset, printRecordCnt, stream,
          endKind, pc, formatDesc, recSize, printSpecCnt, pos, n, err, data,
          scratch, recordCnt, offSet, out, panicMsg, panicIn>>

(***************************************************************************)
(* Bounds of the model.                                                     *)
(***************************************************************************)
MaxSpecLen == 3
MaxTplLen == 4
MaxStreamLen == 5
MaxRecords == 7

(***************************************************************************)
(* Strings.                                                                 *)
(***************************************************************************)
StringsUpTo(A, k) == UNION {[1..m -> A] : m \in 0..k}

Digits == {"0", "1", "2", "3", "4", "5", "6", "7", "8", "9"}

DigitVal(c) ==
    CASE c = "0" -> 0 [] c = "1" -> 1 [] c = "2" -> 2 [] c = "3" -> 3
      [] c = "4" -> 4 [] c = "5" -> 5 [] c = "6" -> 6 [] c = "7" -> 7
      [] c = "8" -> 8 [] c = "9" -> 9

isDigit(b) == b \in Digits

\* s[a:b] of Go, with 0-based half-open indices
Slice(s, a, b) == SubSeq(s, a + 1, b)

\* strings.Repeat(s, cnt) for cnt >= 0
RECURSIVE StrRepeat(_, _)
StrRepeat(s, cnt) == IF cnt <= 0 THEN <<>> ELSE s \o StrRepeat(s, cnt - 1)

(***************************************************************************)
(* Layout compiler.                                                         *)
(***************************************************************************)
noType == "noType"

TypeIds == {"I8", "I16", "I32", "I64", "U8", "U16", "U32", "U64"}

descChars == {"c", "s", "l", "q", "C", "S", "L", "Q"}

descCharMap(b) ==
    CASE b = "c" -> [typeId |-> "I8", size |-> 1]
      [] b = "s" -> [typeId |-> "I16", size |-> 2]
      [] b = "l" -> [typeId |-> "I32", size |-> 4]
      [] b = "q" -> [typeId |-> "I64", size |-> 8]
      [] b = "C" -> [typeId |-> "U8", size |-> 1]
      [] b = "S" -> [typeId |-> "U16", size |-> 2]
      [] b = "L" -> [typeId |-> "U32", size |-> 4]
      [] b = "Q" -> [typeId |-> "U64", size |-> 8]

\* k appended copies of t (none when k <= 0)
Copies(t, k) == [j \in 1..k |-> t]

PanicRepeatNoSpec == "Data specifier error: repeat number without previous data specifier"
PanicSpecNotSupported == "Data specifier not supported"

\* the body of the scan loop of parseBinaryFmtSpec for one character
ParseStep(st, b) ==
    IF b \in descChars
    THEN LET desc == descCharMap(b)
             flushed == IF st.repeatNum # 0
                        THEN [st EXCEPT
                                !.formatDesc = @ \o Copies(st.prevDesc.typeId, st.repeatNum - 1),
                                !.recSize = @ + (st.repeatNum - 1) * st.prevDesc.size,
                                !.repeatNum = 0]
                        ELSE st
         IN  [flushed EXCEPT !.formatDesc = Append(@, desc.typeId),
                             !.prevDesc = desc,
                             !.recSize = @ + desc.size]
    ELSE IF isDigit(b)
         THEN IF st.prevDesc.typeId = noType
              THEN [st EXCEPT !.panicMsg = PanicRepeatNoSpec]
              ELSE [st EXCEPT !.repeatNum = @ * 10 + DigitVal(b)]
         ELSE [st EXCEPT !.panicMsg = PanicSpecNotSupported]

RECURSIVE ParseLoop(_, _, _)
ParseLoop(binFmt, i, st) ==
    IF i > Len(binFmt) \/ st.panicMsg # "none"
    THEN st
    ELSE ParseLoop(binFmt, i + 1, ParseStep(st, binFmt[i]))

\* what is done after the scan loop: the pending repeat count of a trailing number
ParseTail(st) ==
    IF st.panicMsg # "none"
    THEN st
    ELSE [st EXCEPT
            !.formatDesc = @ \o Copies(st.prevDesc.typeId, st.repeatNum - 1),
            !.recSize = IF st.repeatNum # 0
                        THEN @ + (st.repeatNum - 1) * st.prevDesc.size
                        ELSE @]

parseBinaryFmtSpec(binFmt) ==
    ParseTail(ParseLoop(binFmt, 1,
                        [formatDesc |-> <<>>, recSize |-> 0, repeatNum |-> 0,
                         prevDesc |-> [typeId |-> noType, size |-> -1],
                         panicMsg |-> "none"]))


(***************************************************************************)
(* Template expander.  The two regular expressions of the code are matched  *)
(* the way Go's regexp matches them (leftmost match, greedy runs, matches   *)
(* found one after the other without overlap).                              *)
(***************************************************************************)
ConvLetters == {"c", "d", "x", "o"}

\* first 0-based index >= j of s whose character is in S, Len(s) when none
RECURSIVE SkipNotIn(_, _, _)
SkipNotIn(s, j, S) ==
    IF j >= Len(s) \/ s[j + 1] \in S THEN j ELSE SkipNotIn(s, j + 1, S)

\* first 0-based index >= j of s whose character is not in S, Len(s) when none
RECURSIVE SkipIn(_, _, _)
SkipIn(s, j, S) ==
    IF j >= Len(s) \/ s[j + 1] \notin S THEN j ELSE SkipIn(s, j + 1, S)

\* end (exclusive) of a match of %[^cdxo%]*[cdxo] that starts at index p, -1 when none
SpecEnd(s, p) ==
    IF p >= Len(s) \/ s[p + 1] # "%"
    THEN -1
    ELSE LET j == SkipNotIn(s, p + 1, ConvLetters \cup {"%"})
         IN  IF j < Len(s) /\ s[j + 1] \in ConvLetters THEN j + 1 ELSE -1

\* submatch indices of (%[^cdxo%]*[cdxo])([^\d]*)(\d+)# at index p, <<>> when none
RepeatMatchAt(s, p) ==
    LET e1 == SpecEnd(s, p)
        e2 == SkipNotIn(s, e1, Digits)
        e3 == SkipIn(s, e2, Digits)
    IN  IF e1 >= 0 /\ e3 > e2 /\ e3 < Len(s) /\ s[e3 + 1] = "#"
        THEN <<p, e3 + 1, p, e1, e1, e2, e2, e3>>
        ELSE <<>>

\* printSpecPat.FindAllStringSubmatchIndex(printFmt, -1), searching from index p
RECURSIVE FindAllRepeat(_, _)
FindAllRepeat(s, p) ==
    IF p >= Len(s)
    THEN <<>>
    ELSE LET v == RepeatMatchAt(s, p)
         IN  IF v = <<>>
             THEN FindAllRepeat(s, p + 1)
             ELSE <<v>> \o FindAllRepeat(s, v[2])

\* strconv.Atoi of a run of digits (runs here are far too short to overflow int)
RECURSIVE Atoi(_)
Atoi(cntStr) ==
    IF cntStr = <<>>
    THEN 0
    ELSE 10 * Atoi(SubSeq(cntStr, 1, Len(cntStr) - 1)) + DigitVal(cntStr[Len(cntStr)])

PanicSliceBounds == "runtime error: slice bounds out of range"

\* the slice printFmt[:len(printFmt)-len(sep)] panics when its bound is negative
repeatWithSep(rep, sep, cnt) ==
    LET rpt == StrRepeat(rep \o sep, cnt)
    IN  IF Len(rpt) - Len(sep) < 0
        THEN [str |-> <<>>, panicMsg |-> PanicSliceBounds]
        ELSE [str |-> Slice(rpt, 0, Len(rpt) - Len(sep)), panicMsg |-> "none"]

generatePrintFmt(cnt, sep) == repeatWithSep(<<"%", "0", "2", "x">>, sep, cnt)

\* the loop of processPrintFmt over the matches mat[k..]
RECURSIVE ExpandLoop(_, _, _, _, _)
ExpandLoop(s, mat, k, buf, prevIdx) ==
    IF k > Len(mat)
    THEN [str |-> buf \o Slice(s, prevIdx, Len(s)), panicMsg |-> "none"]
    ELSE LET v == mat[k]
             buf1 == buf \o Slice(s, prevIdx, v[1])
         IN  IF v[1] > 0 /\ s[v[1]] = "%"
             THEN ExpandLoop(s, mat, k + 1, buf1 \o Slice(s, v[1], v[2]), v[2])
             ELSE LET spec == Slice(s, v[3], v[4])
                      sep0 == Slice(s, v[5], v[6])
                      sep == IF sep0 = <<>> THEN <<" ">> ELSE sep0
                      cnt == Atoi(Slice(s, v[7], v[8]))
                      r == repeatWithSep(spec, sep, cnt)
                  IN  IF r.panicMsg # "none"
                      THEN r
                      ELSE ExpandLoop(s, mat, k + 1, buf1 \o r.str, v[2])

processPrintFmt(s) ==
    LET mat == FindAllRepeat(s, 0)
    IN  IF mat = <<>>
        THEN [str |-> s, panicMsg |-> "none"]
        ELSE ExpandLoop(s, mat, 1, <<>>, 0)

\* end (exclusive) of a match of ([^%]{1}SPEC|^SPEC) at index p, -1 when none
CountMatchAt(s, p) ==
    LET a == IF p < Len(s) /\ s[p + 1] # "%" THEN SpecEnd(s, p + 1) ELSE -1
        b == IF p = 0 THEN SpecEnd(s, 0) ELSE -1
    IN  IF a >= 0 THEN a ELSE b

\* len(printSpecPat.FindAllStringIndex(printFmt, -1)), searching from index p
RECURSIVE CountFrom(_, _)
CountFrom(s, p) ==
    IF p >= Len(s)
    THEN 0
    ELSE LET e == CountMatchAt(s, p)
         IN  IF e < 0 THEN CountFrom(s, p + 1) ELSE 1 + CountFrom(s, e)

countPrintFmtSpec(s) == CountFrom(s, 0)

(***************************************************************************)
(* Record reader.  The reader delivers the bytes of stream and then endKind:*)
(* "EOF" for a clean end of stream, "ERR" for any other I/O failure.        *)
(***************************************************************************)
TypeSize(t) ==
    CASE t \in {"I8", "U8"} -> 1
      [] t \in {"I16", "U16"} -> 2
      [] t \in {"I32", "U32"} -> 4
      [] t \in {"I64", "U64"} -> 8

Signed(t) == t \in {"I8", "I16", "I32", "I64"}

RECURSIVE Pow256(_)
Pow256(k) == IF k = 0 THEN 1 ELSE 256 * Pow256(k - 1)

\* byteOrder = binary.LittleEndian: the unsigned value of the bytes bs
RECURSIVE LittleEndian(_)
LittleEndian(bs) ==
    IF bs = <<>> THEN 0 ELSE bs[1] + 256 * LittleEndian(Tail(bs))

\* the value of type t held by the bytes bs
Decode(t, bs) ==
    LET u == LittleEndian(bs)
        m == Pow256(Len(bs))
    IN  [t |-> t, v |-> IF Signed(t) /\ 2 * u >= m THEN u - m ELSE u]

\* ReadField with a clean end of stream reported as an unexpected one
ReadFieldNoCleanEOF(s, ek, p, t) ==
    LET size == TypeSize(t)
        avail == Len(s) - p
    IN  IF avail >= size
        THEN [err |-> "nil", pos |-> p + size, val |-> Decode(t, Slice(s, p, p + size))]
        ELSE [err |-> IF ek = "ERR" THEN "ioerr" ELSE "ErrUnexpectedEOF",
              pos |-> Len(s),
              val |-> [t |-> t, v |-> 0]]

\* binary.Read of one value of type t at position p: io.ReadFull of its bytes
ReadField(s, ek, p, t) ==
    LET size == TypeSize(t)
        avail == Len(s) - p
    IN  IF avail >= size
        THEN [err |-> "nil", pos |-> p + size, val |-> Decode(t, Slice(s, p, p + size))]
        ELSE [err |-> IF ek = "ERR" THEN "ioerr"
                      ELSE IF avail = 0 THEN "EOF" ELSE "ErrUnexpectedEOF",
              pos |-> Len(s),
              val |-> [t |-> t, v |-> 0]]

\* the loop of readData from field i on; st = [n, err, pos, data, scratch]
RECURSIVE ReadLoop(_, _, _, _, _)
ReadLoop(s, ek, fd, i, st) ==
    IF i > Len(fd)
    THEN st
    ELSE LET t == fd[i]
             r == ReadField(s, ek, st.pos, t)
             \* a failed binary.Read leaves the scratch variable as it was
             sc == IF r.err = "nil" THEN [st.scratch EXCEPT ![t] = r.val] ELSE st.scratch
             st1 == [st EXCEPT !.err = r.err, !.pos = r.pos, !.scratch = sc,
                               !.data = [@ EXCEPT ![i] = sc[t]]]
         IN  IF r.err # "nil"
             THEN st1
             ELSE ReadLoop(s, ek, fd, i + 1, [st1 EXCEPT !.n = @ + 1])

readData(s, ek, p, fd, d, sc) ==
    ReadLoop(s, ek, fd, 1, [n |-> 0, err |-> "nil", pos |-> p, data |-> d, scratch |-> sc])

\* the line printData writes for the values vals when recordCnt is rc; the
\* rendering of vals by fmt.Printf is left out, a line holds the argument list
printData(rc, vals) ==
    [kind |-> "record",
     off |-> IF printOffset THEN offSet ELSE -1,
     cnt |-> IF printRecordCnt THEN rc ELSE -1,
     vals |-> vals]

MsgLine(kind) == [kind |-> kind, off |-> -1, cnt |-> -1, vals |-> <<>>]

OffsetLine == [kind |-> "offset", off |-> offSet, cnt |-> -1, vals |-> <<>>]

(***************************************************************************)
(* main().                                                                  *)
(***************************************************************************)
NilValue == [t |-> "nil", v |-> 0]

PanicMismatch == "Binary spec and print fmt field counts do not match"

\* the deferred recover of main: print the panic value, os.Exit(1)
Recover(where, msg) ==
    /\ pc' = "exit1"
    /\ panicMsg' = msg
    /\ panicIn' = where
    /\ out' = Append(out, MsgLine("panic"))

\* formatDesc, recordSize := parseBinaryFmtSpec(opt.binaryFmt); data := make(...)
ParseLayout ==
    /\ pc = "parse"
    /\ LET r == parseBinaryFmtSpec(binaryFmt)
       IN  IF r.panicMsg # "none"
           THEN /\ Recover("parseBinaryFmtSpec", r.panicMsg)
                /\ UNCHANGED <<formatDesc, recSize, data>>
           ELSE /\ formatDesc' = r.formatDesc
                /\ recSize' = r.recSize
                /\ data' = [i \in 1..Len(r.formatDesc) |-> NilValue]
                /\ pc' = "expand"
                /\ UNCHANGED <<out, panicMsg, panicIn>>
    /\ UNCHANGED <<binaryFmt, argPrintFmt, printFmt, printOffset, printRecordCnt,
                   stream, endKind, printSpecCnt, pos, n, err, scratch, recordCnt,
                   offSet>>

\* the default template when none is given, then processPrintFmt
ExpandTemplate ==
    /\ pc = "expand"
    /\ LET g == IF printFmt = <<>>
                THEN generatePrintFmt(Len(formatDesc), <<" ">>)
                ELSE [str |-> printFmt, panicMsg |-> "none"]
           e == processPrintFmt(g.str)
       IN  IF g.panicMsg # "none"
           THEN /\ Recover("generatePrintFmt", g.panicMsg)
                /\ UNCHANGED printFmt
           ELSE IF e.panicMsg # "none"
                THEN /\ Recover("processPrintFmt", e.panicMsg)
                     /\ UNCHANGED printFmt
                ELSE /\ printFmt' = e.str
                     /\ pc' = "validate"
                     /\ UNCHANGED <<out, panicMsg, panicIn>>
    /\ UNCHANGED <<binaryFmt, argPrintFmt, printOffset, printRecordCnt, stream,
                   endKind, formatDesc, recSize, printSpecCnt, pos, n, err, data,
                   scratch, recordCnt, offSet>>

\* countPrintFmtSpec and the comparison with the number of fields
ValidateTemplate ==
    /\ pc = "validate"
    /\ printSpecCnt' = countPrintFmtSpec(printFmt)
    /\ IF printSpecCnt' # Len(formatDesc)
       THEN /\ Recover("main", PanicMismatch)
            /\ UNCHANGED printFmt
       ELSE /\ printFmt' = Append(printFmt, "\n")
            /\ pc' = "loop"
            /\ UNCHANGED <<out, panicMsg, panicIn>>
    /\ UNCHANGED <<binaryFmt, argPrintFmt, printOffset, printRecordCnt, stream,
                   endKind, formatDesc, recSize, pos, n, err, data, scratch,
                   recordCnt, offSet>>

\* one turn of the read loop: readData, the loop condition, the loop body
ReadRecord ==
    /\ pc = "loop"
    /\ recordCnt < MaxRecords
    /\ LET r == readData(stream, endKind, pos, formatDesc, data, scratch)
       IN  /\ n' = r.n
           /\ err' = r.err
           /\ pos' = r.pos
           /\ data' = r.data
           /\ scratch' = r.scratch
           /\ IF r.err = "nil"
              THEN /\ recordCnt' = recordCnt + 1
                   /\ out' = Append(out, printData(recordCnt + 1, r.data))
                   /\ offSet' = offSet + recSize
                   /\ pc' = "loop"
              ELSE /\ pc' = "tail"
                   /\ UNCHANGED <<recordCnt, out, offSet>>
    /\ UNCHANGED <<binaryFmt, argPrintFmt, printFmt, printOffset, printRecordCnt,
                   stream, endKind, formatDesc, recSize, printSpecCnt, panicMsg,
                   panicIn>>

\* the lines main writes once the loop has ended
TailLines ==
    (IF n # 0
     THEN <<printData(recordCnt, Slice(data, 0, n))>>
     ELSE IF printOffset THEN <<OffsetLine>> ELSE <<>>)
    \o
    (IF err # "EOF"
     THEN IF err = "ErrUnexpectedEOF"
          THEN <<MsgLine("EOF: final data not enough for the last field")>>
          ELSE <<MsgLine("While reading data:")>>
     ELSE <<>>)

AfterLoop ==
    /\ pc = "tail"
    /\ out' = out \o TailLines
    /\ pc' = "done"
    /\ UNCHANGED <<binaryFmt, argPrintFmt, printFmt, printOffset, printRecordCnt,
                   stream, endKind, formatDesc, recSize, printSpecCnt, pos, n, err,
                   data, scratch, recordCnt, offSet, panicMsg, panicIn>>

(***************************************************************************)
(* Inputs and specifications.                                               *)
(***************************************************************************)
Bytes == {1, 255}

\* layouts of whole runs: C2, sC, CS, S, C, the empty layout, 5, Cz
Layouts ==
    {<<"C", "2">>, <<"s", "C">>, <<"C", "S">>, <<"S">>, <<"C">>, <<>>, <<"5">>,
     <<"C", "z">>}

\* templates of whole runs: none (the default), %d%d, %d, %d2#, x, %d0#
Templates ==
    {<<>>, <<"%", "d", "%", "d">>, <<"%", "d">>, <<"%", "d", "2", "#">>, <<"x">>,
     <<"%", "d", "0", "#">>}

LayoutAlphabet == {"c", "S", "q", "0", "2", "z"}

LayoutExamples ==
    {<<"s", "L", "2", "c">>, <<"C", "1", "6">>, <<"c", "1", "0">>}

TemplateAlphabet == {"%", "d", "0", "2", "#", ","}

TemplateExamples ==
    {<<"%", "0", "2", "x", "4", "#">>,
     <<"%", "0", "2", "x", ",", "3", "#">>,
     <<"a", "%", "d", "2", "#", "b", "%", "x", "-", "2", "#">>,
     <<"%", "%", "d", "2", "#", "%", "d">>}

InitCommon ==
    /\ printFmt = argPrintFmt
    /\ printSpecCnt = 0
    /\ pos = 0
    /\ n = 0
    /\ err = "nil"
    /\ scratch = [t \in TypeIds |-> [t |-> t, v |-> 0]]
    /\ recordCnt = 0
    /\ offSet = 0
    /\ out = <<>>
    /\ panicMsg = "none"
    /\ panicIn = "none"

\* a whole run of main
Init ==
    /\ binaryFmt \in Layouts
    /\ argPrintFmt \in Templates
    /\ printOffset \in BOOLEAN
    /\ printRecordCnt \in BOOLEAN
    /\ stream \in StringsUpTo(Bytes, MaxStreamLen)
    /\ endKind \in {"EOF", "ERR"}
    /\ pc = "parse"
    /\ formatDesc = <<>>
    /\ recSize = 0
    /\ data = <<>>
    /\ InitCommon

Next == ParseLayout \/ ExpandTemplate \/ ValidateTemplate \/ ReadRecord \/ AfterLoop

Spec == Init /\ [][Next]_vars

\* the layout compiler on every specifier up to MaxSpecLen characters
InitLayout ==
    /\ binaryFmt \in StringsUpTo(LayoutAlphabet, MaxSpecLen) \cup LayoutExamples
    /\ argPrintFmt = <<>>
    /\ printOffset = FALSE
    /\ printRecordCnt = FALSE
    /\ stream = <<>>
    /\ endKind = "EOF"
    /\ pc = "parse"
    /\ formatDesc = <<>>
    /\ recSize = 0
    /\ data = <<>>
    /\ InitCommon

NextLayout == ParseLayout

SpecLayout == InitLayout /\ [][NextLayout]_vars

\* the template expander and counter on every template up to MaxTplLen
\* characters, main having compiled the layout C2
InitTemplate ==
    /\ binaryFmt = <<"C", "2">>
    /\ argPrintFmt \in StringsUpTo(TemplateAlphabet, MaxTplLen) \cup TemplateExamples
    /\ printOffset = FALSE
    /\ printRecordCnt = FALSE
    /\ stream = <<>>
    /\ endKind = "EOF"
    /\ pc = "expand"
    /\ formatDesc = parseBinaryFmtSpec(binaryFmt).formatDesc
    /\ recSize = parseBinaryFmtSpec(binaryFmt).recSize
    /\ data = [i \in 1..Len(formatDesc) |-> NilValue]
    /\ InitCommon

NextTemplate == ExpandTemplate \/ ValidateTemplate

SpecTemplate == InitTemplate /\ [][NextTemplate]_vars

(***************************************************************************)
(* Reference notions the properties are stated with.                        *)
(***************************************************************************)
LoopPcs == {"loop", "tail", "done"}

\* the expanded template, without the newline main appends before the loop
ExpandedTemplate ==
    IF pc \in LoopPcs THEN SubSeq(printFmt, 1, Len(printFmt) - 1) ELSE printFmt

\* a conversion directive starts at position i: '%', modifiers, one of c d x o
IsDirectiveAt(s, i) ==
    /\ s[i] = "%"
    /\ \E j \in (i + 1)..Len(s) :
          /\ s[j] \in ConvLetters
          /\ \A k \in (i + 1)..(j - 1) : s[k] \notin ConvLetters \cup {"%"}

\* the directives that are not immediately preceded by a literal '%'
LiveDirectives(s) ==
    Cardinality({i \in 1..Len(s) : IsDirectiveAt(s, i) /\ (i = 1 \/ s[i - 1] # "%")})

\* a layout specifier made of recognized letters, each with an optional digit run
ValidLayout(s) ==
    /\ \A i \in 1..Len(s) : s[i] \in descChars \cup Digits
    /\ s # <<>> => s[1] \in descChars

\* the reference field sequence: per letter, R fields of its type
RECURSIVE RefFields(_)
RefFields(s) ==
    IF s = <<>>
    THEN <<>>
    ELSE LET d == SkipIn(s, 1, Digits)
             R == IF d = 1 THEN 1 ELSE Atoi(Slice(s, 1, d))
         IN  Copies(descCharMap(s[1]).typeId, R) \o RefFields(Slice(s, d, Len(s)))

RECURSIVE SumWidths(_)
SumWidths(fd) == IF fd = <<>> THEN 0 ELSE TypeSize(fd[1]) + SumWidths(Tail(fd))

\* cnt copies of conv joined by sep
RECURSIVE Joined(_, _, _)
Joined(conv, sep, cnt) ==
    IF cnt <= 0 THEN <<>>
    ELSE IF cnt = 1 THEN conv
    ELSE conv \o sep \o Joined(conv, sep, cnt - 1)

\* <conversion><separator>?<digits># occupies positions a..e of s, the
\* conversion ending at b and the digits being c..(e - 1)
IsShorthand(s, a, b, c, e) ==
    /\ a < b /\ b < c /\ c < e /\ e <= Len(s)
    /\ s[a] = "%"
    /\ s[b] \in ConvLetters
    /\ \A k \in (a + 1)..(b - 1) : s[k] \notin ConvLetters \cup {"%"}
    /\ \A k \in (b + 1)..(c - 1) : s[k] \notin Digits
    /\ \A k \in c..(e - 1) : s[k] \in Digits
    /\ s[e] = "#"

ShorthandStarts(s) ==
    {a \in 1..Len(s) : \E b, c, e \in 1..Len(s) : IsShorthand(s, a, b, c, e)}

MinOf(S) == CHOOSE x \in S : \A y \in S : x <= y

\* the reference expansion of s, whose first character follows the character prev
RECURSIVE RefExpandAfter(_, _)
RefExpandAfter(s, prev) ==
    IF ShorthandStarts(s) = {}
    THEN s
    ELSE LET a == MinOf(ShorthandStarts(s))
             m == CHOOSE t \in (1..Len(s)) \X (1..Len(s)) \X (1..Len(s)) :
                     IsShorthand(s, a, t[1], t[2], t[3])
             b == m[1]
             c == m[2]
             e == m[3]
             before == IF a = 1 THEN prev ELSE s[a - 1]
             sep == IF c = b + 1 THEN <<" ">> ELSE SubSeq(s, b + 1, c - 1)
             rest == SubSeq(s, e + 1, Len(s))
         IN  SubSeq(s, 1, a - 1)
             \o (IF before = "%"
                 THEN SubSeq(s, a, e)
                 ELSE Joined(SubSeq(s, a, b), sep, Atoi(SubSeq(s, c, e - 1))))
             \o RefExpandAfter(rest, "#")

RefExpand(s) == RefExpandAfter(s, "")

\* the record lines of out
RecordLines == {i \in 1..Len(out) : out[i].kind = "record"}

FullLines == {i \in RecordLines : Len(out[i].vals) = Len(formatDesc)}

PartialLines == {i \in RecordLines : Len(out[i].vals) < Len(formatDesc)}

\* byte offset of field j inside a record
RECURSIVE FieldOffset(_, _)
FieldOffset(fd, j) == IF j <= 1 THEN 0 ELSE TypeSize(fd[j - 1]) + FieldOffset(fd, j - 1)

\* the first m values of record number i (from 1) of the stream
RefPrefix(i, m) ==
    [j \in 1..m |->
        LET a == (i - 1) * recSize + FieldOffset(formatDesc, j)
        IN  Decode(formatDesc[j], SubSeq(stream, a + 1, a + TypeSize(formatDesc[j])))]

RefRecord(i) == RefPrefix(i, Len(formatDesc))

\* the stream ended cleanly after at least one and not all fields of a record
EndedMidRecord ==
    /\ pc = "done"
    /\ endKind = "EOF"
    /\ n \in 1..(Len(formatDesc) - 1)

(***************************************************************************)
(* Properties.                                                              *)
(***************************************************************************)

\* C1: when the stream ends after 1 .. len(FieldLayout)-1 fields of the current
\* record were decoded (on a field boundary or inside a field), the decoded
\* prefix is printed as one partial record after the full records and the
\* "insufficient trailing data" message is then reported.
C1_PartialThenInsufficientData ==
    EndedMidRecord =>
        /\ Len(out) = recordCnt + 2
        /\ \A i \in 1..recordCnt : i \in FullLines
        /\ out[recordCnt + 1].kind = "record"
        /\ out[recordCnt + 1].vals = RefPrefix(recordCnt + 1, n)
        /\ out[recordCnt + 2].kind = "EOF: final data not enough for the last field"

\* C2: after an I/O failure other than end-of-stream the failure is reported
\* and no partial record line is printed, however many fields of the current
\* record had been decoded.
C2_NoPartialRecordOnIOError ==
    (pc = "done" /\ err = "ioerr") =>
        /\ PartialLines = {}
        /\ out[Len(out)].kind = "While reading data:"

\* C3: every configuration error (invalid layout character, dangling repeat
\* count, field count of the layout different from the number of live
\* directives of the expanded template) ends the run before the read loop:
\* the loop is never entered by a run that has one.
C3_ConfigErrorsBeforeLoop ==
    pc \in LoopPcs =>
        /\ ValidLayout(binaryFmt)
        /\ Len(formatDesc) = LiveDirectives(ExpandedTemplate)

\* C4: for a specifier of recognized letters, each with an optional decimal
\* repeat count R, parseBinaryFmtSpec returns R fields of the letter's type per
\* letter, in order, and recordSize is the sum of the widths of the fields.
C4_LayoutIsReferenceFields ==
    (pc # "parse" /\ ValidLayout(binaryFmt)) =>
        /\ panicMsg = "none"
        /\ formatDesc = RefFields(binaryFmt)
        /\ recSize = SumWidths(formatDesc)

\* C5: countPrintFmtSpec returns the number of live conversion directives of
\* the expanded template, directives that follow one another directly included.
C5_CountIsLiveDirectives ==
    (pc = "loop" \/ (pc = "exit1" /\ panicIn = "main")) =>
        printSpecCnt = LiveDirectives(ExpandedTemplate)

\* C6: processPrintFmt never panics, whatever the digit run before '#', and
\* returns the template unchanged when no repeat shorthand matches.
C6_ExpandNeverFails ==
    /\ panicIn # "processPrintFmt"
    /\ (pc = "validate" /\ argPrintFmt # <<>> /\ ShorthandStarts(argPrintFmt) = {})
          => printFmt = argPrintFmt

\* C7: processPrintFmt replaces every repeat shorthand by <digits> copies of
\* its conversion joined by its separator (a space when omitted), copies the
\* other text unchanged, and copies a shorthand that follows a literal '%'
\* through unexpanded (its conversion then still follows the '%' in the result,
\* so it is no live directive).
C7_ExpandIsReferenceExpansion ==
    (pc # "expand" /\ argPrintFmt # <<>>) =>
        /\ panicIn # "processPrintFmt"
        /\ ExpandedTemplate = RefExpand(argPrintFmt)

\* C8: with recordSize S >= 1 and a stream of exactly k*S bytes that ends
\* cleanly, the output is the k full records in stream order, no partial record
\* line and no message, and with offset display one final offset-only line
\* showing k*S.
C8_ExactMultipleEndsCleanly ==
    (pc = "done" /\ endKind = "EOF" /\ recSize >= 1 /\ Len(stream) % recSize = 0) =>
        LET k == Len(stream) \div recSize
        IN  /\ Len(out) = k + (IF printOffset THEN 1 ELSE 0)
            /\ \A i \in 1..k :
                  /\ out[i].kind = "record"
                  /\ out[i].vals = RefRecord(i)
                  /\ out[i].off = (IF printOffset THEN (i - 1) * recSize ELSE -1)
                  /\ out[i].cnt = (IF printRecordCnt THEN i ELSE -1)
            /\ printOffset =>
                  /\ out[k + 1].kind = "offset"
                  /\ out[k + 1].off = k * recSize

\* a stream of two whole records of layout C2 has been read to its end, with
\* offset display
C8_Witness ==
    /\ pc = "done"
    /\ endKind = "EOF"
    /\ binaryFmt = <<"C", "2">>
    /\ Len(stream) = 4
    /\ printOffset
    /\ Len(out) = 3

\* C9: when the loop has ended, the record count is the number of full records
\* plus one for a partial record, and the offset is recordSize times the
\* record count.
C9_PositionCountsPartialRecord ==
    pc = "done" =>
        /\ recordCnt = Cardinality(FullLines) + (IF PartialLines # {} THEN 1 ELSE 0)
        /\ offSet = recSize * recordCnt

\* C10: the read loop terminates on every finite stream.  What readData returns
\* depends only on the layout, the stream and the position in it, so the loop
\* ends exactly when every turn that continues it has consumed at least one
\* byte of the stream.
C10_LoopTerminates ==
    [][(pc = "loop" /\ pc' = "loop") => pos' > pos]_vars

=============================================================================
